---- MODULE Spec2Model ----
(***************************************************************************)
(* A model of the PayPal payment provider of medusa-paypal-payment        *)
(* (src/src/providers/paypal-payment/service.ts): the provider's options  *)
(* and client handle, the lifecycle operations as sequences of remote     *)
(* calls, the session payload the framework hands back to the provider,   *)
(* and the remote order the calls act on.                                 *)
(***************************************************************************)
EXTENDS Integers, Sequences, FiniteSets, TLC

\* ------------------------------------------------------------- bounds

\* Orders the remote service accepts before createOrder is refused.
MaxOrders == 1
\* Levels of `data` nested in a session payload before no further operation
\* that returns a payload is started.
MaxNest == 2

\* ---------------------------------------------------------- processes

\* Invocations that may be in flight.
Procs == {"p1", "p2"}
\* The invocations of the request-per-call specification: one at a time.
Sequential == {"p1"}

\* ------------------------------------------------------ error messages

ErrCtor == "oAuthClientId, oAuthClientSecret and environment are required in the provider's options."
ErrNoClientId == "oAuthClientId is required in the provider's options."
ErrNoClientSecret == "oAuthClientSecret is required in the provider's options."
ErrEnvironment == "environment needs to be either production or sandbox"
ErrCapture == "An error occurred in capturePayment"
ErrAuthorize == "Authorize payment failed"
ErrCancel == "An error occurred in cancelPayment"
ErrInitiate == "Initialize payment failed"
ErrRetrieve == "Initialize payment failed."
ErrUncaptured == "Cannot refund an uncaptured payment"
ErrRefund == "An error occurred in refundPayment"
ErrUpdate == "An error occurred in updatePayment"
\* An uncaught TypeError of the runtime (a property read of undefined).
ErrTypeError == "TypeError"

\* ------------------------------------------------------------ options

\* "" stands for a missing (undefined or empty) option: both are falsy.
ClientIds == {"", "client-id"}
ClientSecrets == {"", "client-secret"}
Environments == {"", "sandbox", "production", "staging"}
OptionSets ==
  [oAuthClientId : ClientIds, oAuthClientSecret : ClientSecrets,
   environment : Environments]

\* ----------------------------------------------------- the remote order

\* PaypalOrderStatus of the SDK, and one value outside it.
Created == "CREATED"
Saved == "SAVED"
Approved == "APPROVED"
PayerActionRequired == "PAYER_ACTION_REQUIRED"
Voided == "VOIDED"
Completed == "COMPLETED"
Unknown == "UNKNOWN"
OrderStatuses ==
  {Created, Saved, Approved, PayerActionRequired, Voided, Completed, Unknown}

OrderIds == <<"O1", "O2", "O3">>
AuthorizationIds == <<"A1", "A2", "A3">>
CaptureIds == <<"C1", "C2", "C3">>

Authorization(id) == [id |-> id, status |-> "CREATED"]
Capture(id) == [id |-> id, status |-> "COMPLETED"]

\* A purchase unit: payments is whether the payments sub-object is there;
\* a missing list and an empty list read the same (no length).
PurchaseUnit(payments, auths, caps, invoiceId) ==
  [payments |-> payments, authorizations |-> auths, captures |-> caps,
   invoiceId |-> invoiceId]

FirstUnits ==
  {PurchaseUnit(FALSE, <<>>, <<>>, inv) : inv \in {"", "INV-1"}}
  \cup {PurchaseUnit(TRUE, a, c, inv) :
          a \in {<<>>, <<Authorization("A1")>>},
          c \in {<<>>, <<Capture("C1")>>},
          inv \in {"", "INV-1"}}
SecondUnits ==
  {PurchaseUnit(FALSE, <<>>, <<>>, ""),
   PurchaseUnit(TRUE, <<>>, <<Capture("CX")>>, "")}

\* The orders a session may embed when the provider is first called.
InitialOrders ==
  {[id |-> "O1", status |-> s, purchaseUnits |-> pus] :
     s \in OrderStatuses,
     pus \in {<<>>} \cup {<<u>> : u \in FirstUnits}
             \cup {<<u, v>> : u \in FirstUnits, v \in SecondUnits}}

Amounts == {5, 10}

\* -------------------------------------------------------------- state

VARIABLES
  options,       \* the options the provider is registered with
  validation,    \* the outcome of validateOptions: "none", "ok" or its error
  paypal_,       \* the client handle: "unset", "Sandbox" or "Production"
  ctorError,     \* the error the constructor threw, "" when none
  remoteOrders,  \* the orders held by the remote service
  session,       \* the session payload stored by the framework (<<>>: none)
  initiated,     \* the payload of the latest initiatePayment whose remote
                 \* order is as it was created (<<>>: none)
  proc           \* the invocations, in flight or idle

vars ==
  <<options, validation, paypal_, ctorError, remoteOrders, session, initiated,
    proc>>

\* ------------------------------------------------------------ payloads

\* A session payload (the `data` of an output): the embedded order, the
\* denormalized identifier, the other top-level keys, and how deep earlier
\* payloads are nested under the key `data`; `by` records the operation
\* that returned it.
Payload(by, order, orderId, keys, nest) ==
  [by |-> by, paypalOrder |-> order, paypalOrderId |-> orderId, keys |-> keys,
   nest |-> nest]

\* The top-level keys of each operation's input, which `...paymentData`
\* spreads into the returned payload.
InputKeys(op) ==
  CASE op = "initiatePayment" -> {"amount", "currency_code"}
    [] op = "updatePayment" -> {"amount", "currency_code", "data"}
    [] op = "refundPayment" -> {"amount", "data"}
    [] OTHER -> {"data"}

NoResult ==
  [kind |-> "none", error |-> "", data |-> <<>>, status |-> "", id |-> "",
   action |-> ""]
Failure(msg) == [NoResult EXCEPT !.kind = "error", !.error = msg]
Success(data) == [NoResult EXCEPT !.kind = "ok", !.data = <<data>>]

Idle ==
  [op |-> "", pc |-> "idle", input |-> [data |-> <<>>, amount |-> 0],
   calls |-> <<>>, status |-> "", fetched |-> <<>>, result |-> NoResult]

\* A remote call: the endpoint, the identifier it targets, the amount in its
\* body (0: no body) and how it ended.
Call(api, target, amount, outcome) ==
  [api |-> api, target |-> target, amount |-> amount, outcome |-> outcome]

\* ----------------------------------------------------- the remote service

GetOutcomes == {"ok", "noId", "ApiError", "Error"}
CreateOutcomes == {"ok", "noId", "fail"}
MutateOutcomes == {"ok", "okVoided", "fail"}
PatchOutcomes == {"ok", "fail"}

OrderIndex(orders, id) ==
  IF \E i \in 1..Len(orders) : orders[i].id = id
  THEN CHOOSE i \in 1..Len(orders) : orders[i].id = id
  ELSE 0

HasOrder(orders, id) == OrderIndex(orders, id) > 0

\* The order createOrder makes: intent authorize, one purchase unit.
NewOrder(n) ==
  [id |-> OrderIds[n], status |-> Created,
   purchaseUnits |-> <<PurchaseUnit(FALSE, <<>>, <<>>, "")>>]

SetStatus(list, id, st) ==
  [k \in DOMAIN list |->
     IF list[k].id = id THEN [list[k] EXCEPT !.status = st] ELSE list[k]]

HasLive(list, id, st) ==
  \E k \in DOMAIN list : list[k].id = id /\ list[k].status = st

\* Whether the remote service holds authorization `id`, still open.
OpenAuthorization(orders, id) ==
  \E i \in DOMAIN orders : \E j \in DOMAIN orders[i].purchaseUnits :
    HasLive(orders[i].purchaseUnits[j].authorizations, id, "CREATED")

\* Whether the remote service holds capture `id`, not yet refunded.
OpenCapture(orders, id) ==
  \E i \in DOMAIN orders : \E j \in DOMAIN orders[i].purchaseUnits :
    HasLive(orders[i].purchaseUnits[j].captures, id, "COMPLETED")

\* The capture of authorization AuthorizationIds[n] is CaptureIds[n].
CaptureIdOf(authId) ==
  CaptureIds[CHOOSE n \in DOMAIN AuthorizationIds : AuthorizationIds[n] = authId]

OwnsAuthorization(o, id) ==
  \E j \in DOMAIN o.purchaseUnits :
    \E k \in DOMAIN o.purchaseUnits[j].authorizations :
      o.purchaseUnits[j].authorizations[k].id = id

OwnsCapture(o, id) ==
  \E j \in DOMAIN o.purchaseUnits :
    \E k \in DOMAIN o.purchaseUnits[j].captures :
      o.purchaseUnits[j].captures[k].id = id

\* A successful capture: the authorization is captured, its purchase unit
\* gains the capture, the order is completed.
Captured(orders, authId) ==
  [i \in DOMAIN orders |->
     IF ~OwnsAuthorization(orders[i], authId) THEN orders[i]
     ELSE [orders[i] EXCEPT
             !.status = Completed,
             !.purchaseUnits =
               [j \in DOMAIN @ |->
                  IF \E k \in DOMAIN @[j].authorizations :
                       @[j].authorizations[k].id = authId
                  THEN [@[j] EXCEPT
                          !.authorizations = SetStatus(@, authId, "CAPTURED"),
                          !.captures = Append(@, Capture(CaptureIdOf(authId)))]
                  ELSE @[j]]]]

\* A successful void: the authorization is voided; whether the order itself
\* turns voided is the remote service's choice (`toVoided`).
VoidedAuthorization(orders, authId, toVoided) ==
  [i \in DOMAIN orders |->
     IF ~OwnsAuthorization(orders[i], authId) THEN orders[i]
     ELSE [orders[i] EXCEPT
             !.status = IF toVoided THEN Voided ELSE @,
             !.purchaseUnits =
               [j \in DOMAIN @ |->
                  [@[j] EXCEPT
                     !.authorizations = SetStatus(@, authId, "VOIDED")]]]]

\* A successful refund: the capture is refunded; whether the order itself
\* turns voided is the remote service's choice (`toVoided`).
Refunded(orders, captureId, toVoided) ==
  [i \in DOMAIN orders |->
     IF ~OwnsCapture(orders[i], captureId) THEN orders[i]
     ELSE [orders[i] EXCEPT
             !.status = IF toVoided THEN Voided ELSE @,
             !.purchaseUnits =
               [j \in DOMAIN @ |->
                  [@[j] EXCEPT
                     !.captures = SetStatus(@, captureId, "REFUNDED")]]]]

\* A customer approves the order at checkout.
Approve(o) == [o EXCEPT !.status = Approved]

\* A customer authorizes the approved order at checkout: the first purchase
\* unit gains its authorization and the order is completed.
Authorize(o, authId) ==
  [o EXCEPT
     !.status = Completed,
     !.purchaseUnits[1] =
       [@ EXCEPT !.payments = TRUE,
                 !.authorizations = <<Authorization(authId)>>]]

\* The `result` of a getOrder that returns: the order as held, or (noId)
\* the same body without its identifier.
GetOrderResult(orders, id, outcome) ==
  IF outcome = "ok"
  THEN orders[OrderIndex(orders, id)]
  ELSE [orders[OrderIndex(orders, id)] EXCEPT !.id = ""]

\* ------------------------------------------------- options and client

\* validateOptions without its check of the environment.
validateOptions_AnyEnvironment(o) ==
  IF o.oAuthClientId = "" THEN ErrNoClientId
  ELSE IF o.oAuthClientSecret = "" THEN ErrNoClientSecret
  ELSE "ok"

validateOptions(o) ==
  IF o.oAuthClientId = "" THEN ErrNoClientId
  ELSE IF o.oAuthClientSecret = "" THEN ErrNoClientSecret
  ELSE IF o.environment # "production" /\ o.environment # "sandbox"
       THEN ErrEnvironment
  ELSE "ok"

\* The constructor's condition for building the client.
ConstructorAccepts(o) ==
  o.oAuthClientId # "" /\ o.oAuthClientSecret # "" /\ o.environment # ""

\* The SDK environment the client is built for.
ClientEnvironment(o) ==
  IF o.environment = "sandbox" THEN "Sandbox" ELSE "Production"

\* ------------------------------------------------ the provider's logic

\* capturePayment refusing an order that already has a capture.
CaptureGuard_Uncaptured(o) ==
  /\ Len(o.purchaseUnits) > 0
  /\ o.purchaseUnits[1].payments
  /\ Len(o.purchaseUnits[1].authorizations) > 0
  /\ Len(o.purchaseUnits[1].captures) = 0

\* capturePayment's condition on the embedded order.
CaptureGuard(o) ==
  /\ Len(o.purchaseUnits) > 0
  /\ o.purchaseUnits[1].payments
  /\ Len(o.purchaseUnits[1].authorizations) > 0

\* The condition without its look at the payments sub-object.
PaymentsGuard_UnitsOnly(o) ==
  Len(o.purchaseUnits) > 0

\* cancelPayment's and refundPayment's condition on the embedded order.
PaymentsGuard(o) ==
  /\ Len(o.purchaseUnits) > 0
  /\ o.purchaseUnits[1].payments

\* The shortcut taking a completed order for a canceled one.
isAlreadyCanceled_Completed(o) == o.status = Completed

isAlreadyCanceled(o) == o.status = Voided

\* The shortcut testing the invoice of an approved order.
isCanceledAndFullyRefund_WrongStatus(o) ==
  o.status = Approved /\ o.purchaseUnits[1].invoiceId # ""

isCanceledAndFullyRefund(o) ==
  o.status = Completed /\ o.purchaseUnits[1].invoiceId # ""

\* Any payments sub-object taken for a capture.
isAlreadyCaptured_AnyPayments(o) ==
  \E j \in DOMAIN o.purchaseUnits : o.purchaseUnits[j].payments

isAlreadyCaptured(o) ==
  \E j \in DOMAIN o.purchaseUnits :
    o.purchaseUnits[j].payments /\ Len(o.purchaseUnits[j].captures) > 0

\* The switch with the case for saved orders lost.
MapStatus_SavedLost(status) ==
  CASE status = Created -> "pending"
    [] status \in {Approved, PayerActionRequired} -> "requires_more"
    [] status = Voided -> "canceled"
    [] status = Completed -> "authorized"
    [] OTHER -> "pending"

\* getPaymentStatus's switch.
MapStatus(status) ==
  CASE status = Created -> "pending"
    [] status \in {Saved, Approved, PayerActionRequired} -> "requires_more"
    [] status = Voided -> "canceled"
    [] status = Completed -> "authorized"
    [] OTHER -> "pending"

\* The payload retrievePayment and authorizePayment build around an order.
RetrievedPayload(op, data, result) ==
  Payload(op, result, result.id, InputKeys(op), data.nest + 1)

\* The payload of an initiation that leaves paypalOrderId out.
InitiatedPayload_NoOrderId(result) ==
  Payload("initiatePayment", result, "", InputKeys("initiatePayment"), 0)

\* The payload initiatePayment builds around the created order.
InitiatedPayload(result) ==
  Payload("initiatePayment", result, result.id,
          InputKeys("initiatePayment"), 0)

\* A retrievePayment that takes any order response, with or without an
\* identifier.
retrievePayment_AnyResult(op, data, orders, outcome) ==
  IF outcome \in {"ok", "noId"}
  THEN Success(RetrievedPayload(op, data,
                                GetOrderResult(orders, data.paypalOrder.id,
                                               outcome)))
  ELSE IF outcome = "ApiError" THEN Failure(ErrInitiate)
  ELSE Failure(ErrRetrieve)

\* retrievePayment called with the input of operation `op`, whose `data` is
\* `data`, the getOrder ending in `outcome`.
retrievePayment(op, data, orders, outcome) ==
  IF outcome \in {"ok", "noId"}
  THEN LET result ==
             GetOrderResult(orders, data.paypalOrder.id, outcome)
       IN  IF result.id # ""
           THEN Success(RetrievedPayload(op, data, result))
           ELSE Failure(ErrRetrieve)
  ELSE IF outcome = "ApiError" THEN Failure(ErrInitiate)
  ELSE Failure(ErrRetrieve)

\* getPaymentStatus on the outcome of its retrievePayment.
getPaymentStatus(retrievedPayment) ==
  IF retrievedPayment.kind = "error" THEN retrievedPayment
  ELSE [NoResult EXCEPT
          !.kind = "ok",
          !.status = MapStatus(retrievedPayment.data[1].paypalOrder.status)]

\* The error an operation's catch block throws in place of what it caught.
CatchError(op) ==
  CASE op = "capturePayment" -> ErrCapture
    [] op = "cancelPayment" -> ErrCancel
    [] op = "refundPayment" -> ErrRefund
    [] op = "updatePayment" -> ErrUpdate
    [] op = "authorizePayment" -> ErrAuthorize

\* The outcome of the retrievePayment that ends an operation's try block.
Caught(op, retrievedPayment) ==
  IF retrievedPayment.kind = "error" THEN Failure(CatchError(op))
  ELSE retrievedPayment

\* --------------------------------------------------------------- Init

Init ==
  /\ options \in OptionSets
  /\ validation = "none"
  /\ paypal_ = "unset"
  /\ ctorError = ""
  /\ remoteOrders \in {<<>>} \cup {<<o>> : o \in InitialOrders}
  /\ session =
       IF remoteOrders = <<>> THEN <<>>
       ELSE <<InitiatedPayload(remoteOrders[1])>>
  /\ initiated = <<>>
  /\ proc = [p \in Procs |-> Idle]

\* --------------------------------------------------- registration steps

ValidateOptions ==
  /\ validation = "none"
  /\ validation' = validateOptions(options)
  /\ UNCHANGED <<options, paypal_, ctorError, remoteOrders, session,
                 initiated, proc>>

Constructor ==
  /\ paypal_ = "unset"
  /\ ctorError = ""
  /\ IF ConstructorAccepts(options)
     THEN paypal_' = ClientEnvironment(options) /\ ctorError' = ctorError
     ELSE paypal_' = paypal_ /\ ctorError' = ErrCtor
  /\ UNCHANGED <<options, validation, remoteOrders, session, initiated, proc>>

\* The provider is registered: its options validated, its client built.
Registered == validation = "ok" /\ paypal_ # "unset"

\* ------------------------------------------------ the customer's steps

CustomerApproves ==
  /\ \E i \in DOMAIN remoteOrders :
       /\ remoteOrders[i].status = Created
       /\ remoteOrders' = [remoteOrders EXCEPT ![i] = Approve(@)]
  /\ initiated' = <<>>
  /\ UNCHANGED <<options, validation, paypal_, ctorError, session, proc>>

CustomerAuthorizes ==
  /\ \E i \in DOMAIN remoteOrders :
       /\ remoteOrders[i].status = Approved
       /\ Len(remoteOrders[i].purchaseUnits) > 0
       /\ Len(remoteOrders[i].purchaseUnits[1].authorizations) = 0
       /\ remoteOrders' =
            [remoteOrders EXCEPT ![i] = Authorize(@, AuthorizationIds[i])]
  /\ initiated' = <<>>
  /\ UNCHANGED <<options, validation, paypal_, ctorError, session, proc>>

\* ------------------------------------------------- steps of invocations

CanStart(p) == Registered /\ proc[p].pc = "idle"

HasSession == session # <<>>

\* An operation that returns a payload nests its input one level deeper.
Chainable == HasSession /\ session[1].nest < MaxNest

Begin(op, amount) ==
  [Idle EXCEPT !.op = op, !.input = [data |-> session, amount |-> amount]]

\* The payload of the latest initiation, while its remote order is as created.
Untouched(after) ==
  IF initiated = <<>> THEN <<>>
  ELSE LET id == initiated[1].paypalOrder.id
       IN  IF /\ HasOrder(after, id)
              /\ after[OrderIndex(after, id)]
                   = remoteOrders[OrderIndex(remoteOrders, id)]
           THEN initiated
           ELSE <<>>

\* The invocation after its getOrder round trip ended in `outcome`.
Fetched(r, outcome) ==
  LET id == r.input.data[1].paypalOrder.id
  IN  [r EXCEPT
         !.calls = Append(@, Call("getOrder", id, 0, outcome)),
         !.fetched =
           IF outcome \in {"ok", "noId"}
           THEN <<GetOrderResult(remoteOrders, id, outcome)>>
           ELSE <<>>]

\* The remote service answers a getOrder only for an order it holds.
GetAnswers(r, outcome) ==
  outcome \in {"ok", "noId"}
    => HasOrder(remoteOrders, r.input.data[1].paypalOrder.id)

\* An operation ends without a remote call.
EndsWith(p, r, result) ==
  /\ proc' = [proc EXCEPT ![p] = [r EXCEPT !.pc = "done", !.result = result]]
  /\ UNCHANGED <<remoteOrders, initiated>>

\* The single getOrder round trip of an operation, which ends it.
FetchEnds(p, r, outcome, result) ==
  /\ GetAnswers(r, outcome)
  /\ proc' = [proc EXCEPT
                ![p] = [Fetched(r, outcome) EXCEPT
                          !.pc = "done", !.result = result]]
  /\ UNCHANGED <<remoteOrders, initiated>>

\* A mutating call whose failure is swallowed: the operation goes on to
\* re-fetch the order as if the call had succeeded.
Issue_Refetches(p, r, api, target, amount, outcome, accepted, after, err) ==
  /\ outcome # "fail" => accepted
  /\ remoteOrders' = IF outcome = "fail" THEN remoteOrders ELSE after
  /\ initiated' =
       IF outcome = "fail" THEN initiated
       ELSE IF api = "patchOrder" /\ initiated # <<>>
               /\ initiated[1].paypalOrder.id = target
            THEN <<>>
       ELSE Untouched(remoteOrders')
  /\ proc' =
       [proc EXCEPT
          ![p] = [r EXCEPT
                    !.calls = Append(@, Call(api, target, amount, outcome)),
                    !.pc = "refetch",
                    !.result = NoResult]]

\* The mutating call of an operation's try block: on failure the catch block
\* throws `err`, on success the operation goes on to re-fetch the order.
Issue(p, r, api, target, amount, outcome, accepted, after, err) ==
  /\ outcome # "fail" => accepted
  /\ remoteOrders' = IF outcome = "fail" THEN remoteOrders ELSE after
  /\ initiated' =
       IF outcome = "fail" THEN initiated
       ELSE IF api = "patchOrder" /\ initiated # <<>>
               /\ initiated[1].paypalOrder.id = target
            THEN <<>>
       ELSE Untouched(remoteOrders')
  /\ proc' =
       [proc EXCEPT
          ![p] = [r EXCEPT
                    !.calls = Append(@, Call(api, target, amount, outcome)),
                    !.pc = IF outcome = "fail" THEN "done" ELSE "refetch",
                    !.result =
                      IF outcome = "fail" THEN Failure(err) ELSE NoResult]]

Frame == UNCHANGED <<options, validation, paypal_, ctorError, session>>

\* initiatePayment: one createOrder, then the payload or the error.
InitiatePayment(p) ==
  /\ CanStart(p)
  /\ \E amount \in Amounts, outcome \in CreateOutcomes :
       LET r == Begin("initiatePayment", amount)
           order == NewOrder(Len(remoteOrders) + 1)
           result == IF outcome = "ok" THEN order ELSE [order EXCEPT !.id = ""]
           call == Call("createOrder", "", amount, outcome)
       IN  /\ outcome = "ok" => Len(remoteOrders) < MaxOrders
           /\ remoteOrders' =
                IF outcome = "ok" THEN Append(remoteOrders, order)
                ELSE remoteOrders
           /\ initiated' =
                IF outcome = "ok" THEN <<InitiatedPayload(result)>>
                ELSE initiated
           /\ proc' =
                [proc EXCEPT
                   ![p] = [r EXCEPT
                             !.calls = <<call>>,
                             !.pc = "done",
                             !.result =
                               IF outcome # "fail" /\ result.id # ""
                               THEN [Success(InitiatedPayload(result))
                                       EXCEPT !.id = result.id]
                               ELSE Failure(ErrInitiate)]]
  /\ Frame

\* retrievePayment called by the framework.
RetrievePayment(p) ==
  /\ CanStart(p)
  /\ Chainable
  /\ \E outcome \in GetOutcomes :
       LET r == Begin("retrievePayment", 0)
       IN  FetchEnds(p, r, outcome,
                     retrievePayment(r.op, session[1], remoteOrders, outcome))
  /\ Frame

\* getPaymentStatus called by the framework.
GetPaymentStatus(p) ==
  /\ CanStart(p)
  /\ HasSession
  /\ \E outcome \in GetOutcomes :
       LET r == Begin("getPaymentStatus", 0)
       IN  FetchEnds(p, r, outcome,
                     getPaymentStatus(
                       retrievePayment(r.op, session[1], remoteOrders, outcome)))
  /\ Frame

\* authorizePayment up to the end of its getPaymentStatus.
AuthorizePayment(p) ==
  /\ CanStart(p)
  /\ Chainable
  /\ \E outcome \in GetOutcomes :
       LET r == Begin("authorizePayment", 0)
           got == getPaymentStatus(
                    retrievePayment(r.op, session[1], remoteOrders, outcome))
       IN  /\ GetAnswers(r, outcome)
           /\ proc' =
                [proc EXCEPT
                   ![p] = IF got.kind = "error"
                          THEN [Fetched(r, outcome) EXCEPT
                                  !.pc = "done",
                                  !.result = Failure(ErrAuthorize)]
                          ELSE [Fetched(r, outcome) EXCEPT
                                  !.pc = "refetch",
                                  !.status = got.status]]
  /\ UNCHANGED <<remoteOrders, initiated>>
  /\ Frame

\* capturePayment up to the end of its capture call.
CapturePayment(p) ==
  /\ CanStart(p)
  /\ Chainable
  /\ LET r == Begin("capturePayment", 0)
         paypalOrder == session[1].paypalOrder
     IN  IF CaptureGuard(paypalOrder)
         THEN LET id == paypalOrder.purchaseUnits[1].authorizations[1].id
              IN  \E outcome \in {"ok", "fail"} :
                    Issue(p, r, "captureAuthorizedPayment", id, 0, outcome,
                          OpenAuthorization(remoteOrders, id),
                          Captured(remoteOrders, id), ErrCapture)
         ELSE EndsWith(p, r, Failure(ErrCapture))
  /\ Frame

\* cancelPayment up to the end of its first remote call.
CancelPayment(p) ==
  /\ CanStart(p)
  /\ Chainable
  /\ LET r == Begin("cancelPayment", 0)
         paypalOrder == session[1].paypalOrder
     IN  IF ~PaymentsGuard(paypalOrder)
         THEN EndsWith(p, r, Failure(ErrCancel))
         ELSE IF isAlreadyCanceled(paypalOrder)
                 \/ isCanceledAndFullyRefund(paypalOrder)
         THEN \E outcome \in GetOutcomes :
                FetchEnds(p, r, outcome,
                          retrievePayment(r.op, session[1], remoteOrders,
                                          outcome))
         ELSE IF isAlreadyCaptured(paypalOrder)
         THEN IF Len(paypalOrder.purchaseUnits[1].captures) = 0
              THEN EndsWith(p, r, Failure(ErrCancel))
              ELSE LET id == paypalOrder.purchaseUnits[1].captures[1].id
                   IN  \E outcome \in MutateOutcomes :
                         Issue(p, r, "refundCapturedPayment", id, 0, outcome,
                               OpenCapture(remoteOrders, id),
                               Refunded(remoteOrders, id, outcome = "okVoided"),
                               ErrCancel)
         ELSE IF Len(paypalOrder.purchaseUnits[1].authorizations) = 0
              THEN EndsWith(p, r, Failure(ErrCancel))
              ELSE LET id == paypalOrder.purchaseUnits[1].authorizations[1].id
                   IN  \E outcome \in MutateOutcomes :
                         Issue(p, r, "voidPayment", id, 0, outcome,
                               OpenAuthorization(remoteOrders, id),
                               VoidedAuthorization(remoteOrders, id,
                                                   outcome = "okVoided"),
                               ErrCancel)
  /\ Frame

\* A refundPayment without the capture check: with no capture in the first
\* purchase unit it sends the refund with no capture identifier.
RefundPayment_Unchecked(p) ==
  /\ CanStart(p)
  /\ Chainable
  /\ \E amount \in Amounts :
       LET r == Begin("refundPayment", amount)
           paypalOrder == session[1].paypalOrder
       IN  IF ~PaymentsGuard(paypalOrder)
           THEN EndsWith(p, r, Failure(ErrRefund))
           ELSE LET captures == paypalOrder.purchaseUnits[1].captures
                    id == IF Len(captures) = 0 THEN "" ELSE captures[1].id
                IN  \E outcome \in MutateOutcomes :
                      Issue(p, r, "refundCapturedPayment", id, amount, outcome,
                            OpenCapture(remoteOrders, id),
                            Refunded(remoteOrders, id, outcome = "okVoided"),
                            ErrRefund)
  /\ Frame

\* refundPayment up to the end of its refund call.
RefundPayment(p) ==
  /\ CanStart(p)
  /\ Chainable
  /\ \E amount \in Amounts :
       LET r == Begin("refundPayment", amount)
           paypalOrder == session[1].paypalOrder
       IN  IF ~PaymentsGuard(paypalOrder)
           THEN EndsWith(p, r, Failure(ErrRefund))
           ELSE IF ~isAlreadyCaptured(paypalOrder)
           THEN EndsWith(p, r, Failure(ErrUncaptured))
           ELSE IF Len(paypalOrder.purchaseUnits[1].captures) = 0
           THEN EndsWith(p, r, Failure(ErrTypeError))
           ELSE LET id == paypalOrder.purchaseUnits[1].captures[1].id
                IN  \E outcome \in MutateOutcomes :
                      Issue(p, r, "refundCapturedPayment", id, amount, outcome,
                            OpenCapture(remoteOrders, id),
                            Refunded(remoteOrders, id, outcome = "okVoided"),
                            ErrRefund)
  /\ Frame

\* updatePayment up to the end of its patchOrder.
UpdatePayment(p) ==
  /\ CanStart(p)
  /\ Chainable
  /\ \E amount \in Amounts, outcome \in PatchOutcomes :
       LET r == Begin("updatePayment", amount)
           id == session[1].paypalOrder.id
       IN  Issue(p, r, "patchOrder", id, amount, outcome,
                 /\ HasOrder(remoteOrders, id)
                 /\ remoteOrders[OrderIndex(remoteOrders, id)].status
                      \in {Created, Approved},
                 remoteOrders, ErrUpdate)
  /\ Frame

\* The retrievePayment that ends a try block, and authorizePayment's second.
Refetch(p) ==
  /\ proc[p].pc = "refetch"
  /\ \E outcome \in GetOutcomes :
       LET r == proc[p]
           retrievedPayment ==
             Caught(r.op, retrievePayment(r.op, r.input.data[1], remoteOrders,
                                          outcome))
       IN  FetchEnds(p, r, outcome,
                     IF r.op = "authorizePayment"
                          /\ retrievedPayment.kind = "ok"
                     THEN [retrievedPayment EXCEPT !.status = r.status]
                     ELSE retrievedPayment)
  /\ Frame

\* A deletePayment that refreshes the order before returning it.
DeletePayment_Refreshes(p) ==
  /\ CanStart(p)
  /\ HasSession
  /\ \E outcome \in GetOutcomes :
       LET r == Begin("deletePayment", 0)
       IN  FetchEnds(p, r, outcome,
                     retrievePayment(r.op, session[1], remoteOrders, outcome))
  /\ Frame

\* deletePayment: the input, as it came.
DeletePayment(p) ==
  /\ CanStart(p)
  /\ LET r == Begin("deletePayment", 0)
     IN  EndsWith(p, r, [NoResult EXCEPT !.kind = "ok", !.data = session])
  /\ Frame

\* getWebhookActionAndData: not supported.
GetWebhookActionAndData(p) ==
  /\ CanStart(p)
  /\ LET r == Begin("getWebhookActionAndData", 0)
     IN  EndsWith(p, r, [NoResult EXCEPT
                           !.kind = "ok", !.action = "not_supported"])
  /\ Frame

\* The framework takes the outcome and stores the payload it carries.
Return(p) ==
  /\ proc[p].pc = "done"
  /\ proc' = [proc EXCEPT ![p] = Idle]
  /\ session' =
       IF proc[p].result.kind = "ok" /\ proc[p].result.data # <<>>
       THEN proc[p].result.data
       ELSE session
  /\ UNCHANGED <<options, validation, paypal_, ctorError, remoteOrders,
                 initiated>>

Step(p) ==
  \/ InitiatePayment(p)
  \/ RetrievePayment(p)
  \/ GetPaymentStatus(p)
  \/ AuthorizePayment(p)
  \/ CapturePayment(p)
  \/ CancelPayment(p)
  \/ RefundPayment(p)
  \/ UpdatePayment(p)
  \/ Refetch(p)
  \/ DeletePayment(p)
  \/ GetWebhookActionAndData(p)
  \/ Return(p)

Next ==
  \/ ValidateOptions
  \/ Constructor
  \/ CustomerApproves
  \/ CustomerAuthorizes
  \/ \E p \in Sequential : Step(p)

Spec == Init /\ [][Next]_vars

\* ------------------------------------------- operations in flight together

\* A registered provider's options, and an order the customer has paid for
\* or is about to.
ConcurrentInit ==
  /\ Init
  /\ validateOptions(options) = "ok"
  /\ remoteOrders # <<>>

\* The operations that capture or void an authorization. The framework has
\* several invocations in flight: each await of one lets the others' steps in.
PaymentStep(p) ==
  \/ CapturePayment(p)
  \/ CancelPayment(p)
  \/ Refetch(p)
  \/ Return(p)

ConcurrentNext ==
  \/ ValidateOptions
  \/ Constructor
  \/ CustomerAuthorizes
  \/ \E p \in Procs : PaymentStep(p)

SpecConcurrent == ConcurrentInit /\ [][ConcurrentNext]_vars

\* ------------------------------------------------------------- claims

\* The order embedded in the payload an invocation was given.
Embedded(p) == proc[p].input.data[1].paypalOrder

Mutations ==
  {"createOrder", "patchOrder", "captureAuthorizedPayment", "voidPayment",
   "refundCapturedPayment"}

\* The calls of an invocation to the endpoints in `apis`.
CallsTo(p, apis) ==
  {i \in DOMAIN proc[p].calls : proc[p].calls[i].api \in apis}

\* The invocation fetched an order that carries its identifier.
FetchedOrder(p) == proc[p].fetched # <<>> /\ proc[p].fetched[1].id # ""

\* The idempotency shortcut of cancelPayment, as the specification words it.
Terminal(o) ==
  \/ o.status = Voided
  \/ /\ o.status = Completed
     /\ Len(o.purchaseUnits) > 0
     /\ o.purchaseUnits[1].invoiceId # ""

\* C1: getPaymentStatus, when its order fetch succeeds, returns the status
\* table's value for the status of the order it fetched: created -> pending;
\* saved, approved, payer-action-required -> requires_more; voided ->
\* canceled; completed -> authorized; anything else -> pending.
C1_StatusTable ==
  \A p \in Procs :
    (proc[p].op = "getPaymentStatus" /\ proc[p].pc = "done" /\ FetchedOrder(p))
      => LET remote == proc[p].fetched[1].status
             got == proc[p].result
         IN  /\ got.kind = "ok"
             /\ remote = "CREATED" => got.status = "pending"
             /\ remote = "SAVED" => got.status = "requires_more"
             /\ remote = "APPROVED" => got.status = "requires_more"
             /\ remote = "PAYER_ACTION_REQUIRED" => got.status = "requires_more"
             /\ remote = "VOIDED" => got.status = "canceled"
             /\ remote = "COMPLETED" => got.status = "authorized"
             /\ remote \notin {"CREATED", "SAVED", "APPROVED",
                               "PAYER_ACTION_REQUIRED", "VOIDED", "COMPLETED"}
                  => got.status = "pending"

\* A getPaymentStatus that answers "authorized" for a completed remote order
\* while the payload it was given still embeds the approved order.
C1_Witness ==
  \E p \in Procs :
    /\ proc[p].op = "getPaymentStatus"
    /\ proc[p].pc = "done"
    /\ FetchedOrder(p)
    /\ proc[p].fetched[1].status = "COMPLETED"
    /\ Embedded(p).status = "APPROVED"
    /\ proc[p].result.status = "authorized"

\* C2 (as stated): with a voided embedded order, or a completed one whose
\* purchase unit has an invoice identifier, cancelPayment issues no remote
\* mutation and returns the order it was given, unchanged.
C2_ReturnsOrderUnchanged ==
  \A p \in Procs :
    (proc[p].op = "cancelPayment" /\ proc[p].pc = "done"
       /\ Terminal(Embedded(p)))
      => /\ CallsTo(p, Mutations) = {}
         /\ proc[p].result.kind = "ok"
         /\ proc[p].result.data[1].paypalOrder = Embedded(p)

\* C2 (amended): with such an embedded order cancelPayment issues no remote
\* mutation; if the first purchase unit has a payments sub-object it returns
\* the order as its fetch found it, and fails only if the fetch does; without
\* a purchase unit or payments sub-object it fails with the cancel error.
C2_NoMutationWhenTerminal ==
  \A p \in Procs :
    (proc[p].op = "cancelPayment" /\ proc[p].pc # "idle"
       /\ Terminal(Embedded(p)))
      => /\ CallsTo(p, Mutations) = {}
         /\ proc[p].pc = "done"
         /\ IF ~(Len(Embedded(p).purchaseUnits) > 0
                   /\ Embedded(p).purchaseUnits[1].payments)
            THEN proc[p].result = Failure(ErrCancel)
            ELSE /\ proc[p].result.kind = "ok" <=> FetchedOrder(p)
                 /\ proc[p].result.kind = "ok"
                      => proc[p].result.data[1].paypalOrder
                           = proc[p].fetched[1]

\* A cancelPayment on a completed, invoiced order that returns the remote
\* order, which by then differs from the embedded one.
C2_Witness ==
  \E p \in Procs :
    /\ proc[p].op = "cancelPayment"
    /\ proc[p].pc = "done"
    /\ Embedded(p).status = Completed
    /\ Terminal(Embedded(p))
    /\ proc[p].result.kind = "ok"
    /\ proc[p].result.data[1].paypalOrder # Embedded(p)

\* Some purchase unit of the order has a capture.
AnyCapture(o) ==
  \E j \in DOMAIN o.purchaseUnits : Len(o.purchaseUnits[j].captures) > 0

\* C3: outside the shortcut (the first purchase unit having its payments
\* sub-object), cancelPayment issues a refund and no void when any purchase
\* unit of the embedded order has a capture, a void of the first
\* authorization and no refund when none has, and after the call has
\* succeeded it re-fetches the order and returns what it fetched.
C3_RefundOrVoid ==
  \A p \in Procs :
    (proc[p].op = "cancelPayment" /\ proc[p].pc \in {"refetch", "done"}
       /\ Len(Embedded(p).purchaseUnits) > 0
       /\ Embedded(p).purchaseUnits[1].payments
       /\ ~Terminal(Embedded(p)))
      => LET e == Embedded(p)
             refunds == CallsTo(p, {"refundCapturedPayment"})
             voids == CallsTo(p, {"voidPayment"})
         IN  /\ AnyCapture(e) => refunds # {} /\ voids = {}
             /\ (~AnyCapture(e) /\ Len(e.purchaseUnits[1].authorizations) > 0)
                  => /\ refunds = {}
                     /\ voids = {1}
                     /\ proc[p].calls[1].target
                          = e.purchaseUnits[1].authorizations[1].id
             /\ (proc[p].pc = "done" /\ proc[p].result.kind = "ok")
                  => /\ Len(proc[p].calls) = 2
                     /\ proc[p].calls[2].api = "getOrder"
                     /\ proc[p].result.data[1].paypalOrder = proc[p].fetched[1]

\* C4 (as stated): refundPayment fails with the uncaptured-payment error for
\* every embedded order in which no purchase unit has a capture.
C4_UncapturedAlways ==
  \A p \in Procs :
    (proc[p].op = "refundPayment" /\ proc[p].pc = "done"
       /\ ~AnyCapture(Embedded(p)))
      => proc[p].result = Failure(ErrUncaptured)

\* C4 (amended): for an embedded order in which no purchase unit has a
\* capture, refundPayment issues no remote call and fails, whatever the
\* amount: with the uncaptured-payment error if the first purchase unit has a
\* payments sub-object, with the generic refund error if there is no purchase
\* unit or no payments sub-object.
C4_UncapturedOrGeneric ==
  \A p \in Procs :
    (proc[p].op = "refundPayment" /\ proc[p].pc # "idle"
       /\ ~AnyCapture(Embedded(p)))
      => /\ proc[p].pc = "done"
         /\ proc[p].calls = <<>>
         /\ proc[p].result =
              IF Len(Embedded(p).purchaseUnits) > 0
                   /\ Embedded(p).purchaseUnits[1].payments
              THEN Failure(ErrUncaptured)
              ELSE Failure(ErrRefund)

\* A refund of 10 on an authorized, uncaptured order that failed with the
\* uncaptured-payment error.
C4_Witness ==
  \E p \in Procs :
    /\ proc[p].op = "refundPayment"
    /\ proc[p].pc = "done"
    /\ proc[p].input.amount = 10
    /\ Len(Embedded(p).purchaseUnits) > 0
    /\ Len(Embedded(p).purchaseUnits[1].authorizations) > 0
    /\ ~AnyCapture(Embedded(p))
    /\ proc[p].result.error = ErrUncaptured

\* C5: capturePayment issues a capture call exactly when the first purchase
\* unit of the embedded order has an authorization; the call is its first
\* and targets the first authorization, and only order fetches follow it,
\* after it succeeded; otherwise the operation fails with the capture error
\* without a remote call.
C5_CaptureIffAuthorized ==
  \A p \in Procs :
    (proc[p].op = "capturePayment" /\ proc[p].pc # "idle")
      => LET e == Embedded(p)
             calls == proc[p].calls
         IN  IF Len(e.purchaseUnits) > 0
                  /\ Len(e.purchaseUnits[1].authorizations) > 0
             THEN /\ Len(calls) >= 1
                  /\ calls[1].api = "captureAuthorizedPayment"
                  /\ calls[1].target = e.purchaseUnits[1].authorizations[1].id
                  /\ \A i \in 2..Len(calls) :
                       calls[i].api = "getOrder" /\ calls[1].outcome = "ok"
                  /\ calls[1].outcome = "fail"
                       => proc[p].result = Failure(ErrCapture)
             ELSE /\ calls = <<>>
                  /\ proc[p].pc = "done"
                  /\ proc[p].result = Failure(ErrCapture)

\* A capturePayment on an order with authorization A1 and no capture that
\* captured A1, re-fetched, and returned the completed order with capture C1.
C5_Witness ==
  \E p \in Procs :
    /\ proc[p].op = "capturePayment"
    /\ proc[p].pc = "done"
    /\ ~AnyCapture(Embedded(p))
    /\ Len(proc[p].calls) = 2
    /\ proc[p].calls[1].target = "A1"
    /\ proc[p].result.kind = "ok"
    /\ proc[p].result.data[1].paypalOrder.status = Completed
    /\ proc[p].result.data[1].paypalOrder.purchaseUnits[1].captures
         = <<Capture("C1")>>

\* C6: a retrievePayment called with the payload of a successful
\* initiatePayment, the remote order not having changed in between, returns
\* an order with the identifier and the status of the order initiatePayment
\* returned, and paypalOrderId is that identifier in both payloads.
C6_InitiateThenRetrieve ==
  \A p \in Procs :
    (proc[p].op = "retrievePayment" /\ proc[p].pc = "done"
       /\ initiated # <<>> /\ proc[p].input.data = initiated
       /\ proc[p].result.kind = "ok")
      => LET first == initiated[1]
             second == proc[p].result.data[1]
         IN  /\ first.paypalOrder.id # ""
             /\ second.paypalOrder.id = first.paypalOrder.id
             /\ second.paypalOrder.status = first.paypalOrder.status
             /\ first.paypalOrderId = first.paypalOrder.id
             /\ second.paypalOrderId = first.paypalOrder.id

\* A retrievePayment that returned, called with the payload of the initiation
\* of order O1, which is still as created.
C6_Witness ==
  \E p \in Procs :
    /\ proc[p].op = "retrievePayment"
    /\ proc[p].pc = "done"
    /\ initiated # <<>>
    /\ proc[p].input.data = initiated
    /\ proc[p].result.kind = "ok"
    /\ proc[p].result.data[1].paypalOrder.id = "O1"
    /\ proc[p].result.data[1].paypalOrder.status = Created

\* The constructor has run.
Constructed == paypal_ # "unset" \/ ctorError # ""

Complete ==
  /\ options.oAuthClientId # ""
  /\ options.oAuthClientSecret # ""
  /\ options.environment # ""

Allowed == options.environment \in {"sandbox", "production"}

\* C7 (as stated): the constructor fails whenever an option is missing and
\* whenever the environment is neither "sandbox" nor "production"; a client
\* handle is built only for complete options with one of the two values.
C7_ConstructorChecksEnvironment ==
  /\ (Constructed /\ ~(Complete /\ Allowed)) => ctorError # ""
  /\ paypal_ # "unset" => Complete /\ Allowed

\* C7 (amended): the constructor fails exactly when one of the three options
\* is missing, and builds the production client for every environment other
\* than "sandbox"; validateOptions fails exactly when the client identifier
\* or secret is missing or the environment is neither "sandbox" nor
\* "production"; a provider that passed both has a client for one of the two.
C7_ConstructorAndValidation ==
  /\ Constructed =>
       /\ paypal_ # "unset" <=> Complete
       /\ ctorError = (IF Complete THEN "" ELSE ErrCtor)
  /\ paypal_ # "unset" =>
       paypal_ = (IF options.environment = "sandbox" THEN "Sandbox"
                  ELSE "Production")
  /\ validation # "none" =>
       /\ validation = "ok" <=>
            /\ options.oAuthClientId # ""
            /\ options.oAuthClientSecret # ""
            /\ Allowed
       /\ validation \in
            {"ok", ErrNoClientId, ErrNoClientSecret, ErrEnvironment}
  /\ (validation = "ok" /\ paypal_ # "unset") =>
       /\ Allowed
       /\ options.environment = "production" <=> paypal_ = "Production"

\* The constructor built the production client for the environment
\* "staging", which validateOptions refused.
C7_Witness ==
  /\ options.environment = "staging"
  /\ paypal_ = "Production"
  /\ validation = ErrEnvironment

\* The lifecycle operations, and the error message that is each one's own.
Operations ==
  {"initiatePayment", "authorizePayment", "capturePayment", "cancelPayment",
   "refundPayment", "retrievePayment", "updatePayment", "getPaymentStatus",
   "deletePayment", "getWebhookActionAndData"}

OwnErrors(op) ==
  CASE op = "initiatePayment" -> {"Initialize payment failed"}
    [] op = "retrievePayment" -> {"Initialize payment failed."}
    [] op = "authorizePayment" -> {"Authorize payment failed"}
    [] op = "capturePayment" -> {"An error occurred in capturePayment"}
    [] op = "cancelPayment" -> {"An error occurred in cancelPayment"}
    [] op = "refundPayment" ->
         {"An error occurred in refundPayment",
          "Cannot refund an uncaptured payment"}
    [] op = "updatePayment" -> {"An error occurred in updatePayment"}
    [] OTHER -> {}

\* C8: when a remote call of an operation fails (the order re-fetch
\* included), the operation fails, and never with the error of another
\* operation than the one the caller invoked.
C8_OwnError ==
  \A p \in Procs :
    (proc[p].pc = "done" /\ proc[p].calls # <<>>
       /\ proc[p].calls[Len(proc[p].calls)].outcome
            \in {"fail", "ApiError", "Error"})
      => /\ proc[p].result.kind = "error"
         /\ \A op \in Operations \ {proc[p].op} :
              proc[p].result.error \notin OwnErrors(op)

\* C9 (as stated): with a voided embedded order cancelPayment issues no
\* remote call at all and returns the order it was given.
C9_NoRemoteCall ==
  \A p \in Procs :
    (proc[p].op = "cancelPayment" /\ proc[p].pc = "done"
       /\ Embedded(p).status = Voided)
      => /\ proc[p].calls = <<>>
         /\ proc[p].result.kind = "ok"
         /\ proc[p].result.data[1].paypalOrder = Embedded(p)

\* C9 (amended): with a voided embedded order whose first purchase unit has
\* a payments sub-object, cancelPayment issues exactly one remote call, a
\* fetch of the embedded order's identifier, and no mutation; it returns the
\* fetched order under its identifier, or fails as retrievePayment does when
\* the fetch fails. Without a purchase unit or payments sub-object it issues
\* no remote call and fails with the cancel error.
C9_OneFetchNoMutation ==
  \A p \in Procs :
    (proc[p].op = "cancelPayment" /\ proc[p].pc # "idle"
       /\ Embedded(p).status = Voided)
      => LET e == Embedded(p)
             calls == proc[p].calls
             got == proc[p].result
         IN  /\ proc[p].pc = "done"
             /\ IF Len(e.purchaseUnits) > 0 /\ e.purchaseUnits[1].payments
                THEN /\ Len(calls) = 1
                     /\ calls[1].api = "getOrder"
                     /\ calls[1].target = e.id
                     /\ calls[1].outcome = "ok" =>
                          /\ got.kind = "ok"
                          /\ got.data[1].paypalOrder = proc[p].fetched[1]
                          /\ got.data[1].paypalOrderId = e.id
                     /\ calls[1].outcome = "ApiError" =>
                          got = Failure("Initialize payment failed")
                     /\ calls[1].outcome \in {"noId", "Error"} =>
                          got = Failure("Initialize payment failed.")
                ELSE calls = <<>> /\ got = Failure(ErrCancel)

\* A cancelPayment on a voided order that fetched the order once and
\* returned it, the remote order having gained a capture since.
C9_Witness ==
  \E p \in Procs :
    /\ proc[p].op = "cancelPayment"
    /\ proc[p].pc = "done"
    /\ Embedded(p).status = Voided
    /\ Len(proc[p].calls) = 1
    /\ proc[p].result.kind = "ok"
    /\ ~AnyCapture(Embedded(p))
    /\ AnyCapture(proc[p].result.data[1].paypalOrder)

ReadOnly == {"authorizePayment", "retrievePayment", "getPaymentStatus"}
Local == {"deletePayment", "getWebhookActionAndData"}

\* C10: no step of deletePayment, getWebhookActionAndData, authorizePayment,
\* retrievePayment or getPaymentStatus changes an order of the remote
\* service; the first two issue no remote call (deletePayment returns the
\* payload it was given, getWebhookActionAndData returns not-supported), the
\* other three issue order fetches only.
C10_NonMutating ==
  [][\A p \in Procs :
       (proc'[p] # proc[p] /\ proc'[p].op \in ReadOnly \cup Local)
         => /\ remoteOrders' = remoteOrders
            /\ proc'[p].op \in ReadOnly =>
                 \A i \in DOMAIN proc'[p].calls :
                   proc'[p].calls[i].api = "getOrder"
            /\ proc'[p].op \in Local => proc'[p].calls = <<>>
            /\ proc'[p].op = "deletePayment" =>
                 /\ proc'[p].result.kind = "ok"
                 /\ proc'[p].result.data = proc'[p].input.data
            /\ proc'[p].op = "getWebhookActionAndData" =>
                 proc'[p].result.action = "not_supported"]_vars

\* An authorizePayment that ended after two order fetches, and nothing else.
C10_Witness ==
  \E p \in Procs :
    /\ proc[p].op = "authorizePayment"
    /\ proc[p].pc = "done"
    /\ proc[p].result.kind = "ok"
    /\ Len(proc[p].calls) = 2
    /\ \A i \in DOMAIN proc[p].calls : proc[p].calls[i].api = "getOrder"

\* The invocation was given the payload a successful `op` returned.
GivenPayloadOf(p, op) ==
  proc[p].input.data # <<>> /\ proc[p].input.data[1].by = op

\* Every remote call the invocation made came back without an error.
NoCallFailed(p) ==
  \A i \in DOMAIN proc[p].calls : proc[p].calls[i].outcome \in {"ok", "okVoided"}

\* C11: a cancelPayment called with the payload a successful cancelPayment
\* returned issues no remote mutation (no second refund, no second void),
\* and succeeds (as long as the remote service answers its calls).
C11_CancelIdempotent ==
  \A p \in Procs :
    (proc[p].op = "cancelPayment" /\ proc[p].pc # "idle"
       /\ GivenPayloadOf(p, "cancelPayment"))
      => /\ CallsTo(p, Mutations) = {}
         /\ (proc[p].pc = "done" /\ NoCallFailed(p))
              => proc[p].result.kind = "ok"

Mutating ==
  {"capturePayment", "cancelPayment", "refundPayment", "updatePayment"}

C12_FailedMutation ==
  \E p \in Procs :
    /\ proc[p].op = "updatePayment"
    /\ proc[p].pc = "done"
    /\ Len(proc[p].calls) = 1
    /\ proc[p].calls[1].outcome = "fail"
    /\ proc[p].result.error = ErrUpdate

\* The first purchase unit of the order has a capture.
FirstUnitCaptured(o) ==
  Len(o.purchaseUnits) > 0 /\ Len(o.purchaseUnits[1].captures) > 0

\* C13: a refund call is issued only by refundPayment or cancelPayment, only
\* when the first purchase unit of the embedded order has a capture, and it
\* targets that purchase unit's first capture; a refundPayment whose embedded
\* order has no capture in any purchase unit issues no remote call at all.
C13_RefundOnlyFirstCapture ==
  \A p \in Procs :
    proc[p].pc # "idle"
      => /\ \A i \in CallsTo(p, {"refundCapturedPayment"}) :
              /\ proc[p].op \in {"refundPayment", "cancelPayment"}
              /\ FirstUnitCaptured(Embedded(p))
              /\ proc[p].calls[i].target
                   = Embedded(p).purchaseUnits[1].captures[1].id
         /\ (proc[p].op = "refundPayment" /\ ~AnyCapture(Embedded(p)))
              => proc[p].calls = <<>>

\* A refundPayment that sent its refund to the first capture of the first
\* purchase unit while a later purchase unit holds another capture.
C13_Witness ==
  \E p \in Procs :
    /\ proc[p].op = "refundPayment"
    /\ proc[p].pc = "done"
    /\ Len(Embedded(p).purchaseUnits) = 2
    /\ Len(Embedded(p).purchaseUnits[2].captures) > 0
    /\ CallsTo(p, {"refundCapturedPayment"}) = {1}
    /\ proc[p].calls[1].target = "C1"
    /\ proc[p].result.kind = "ok"

\* The order has a purchase unit, and the first has a payments sub-object.
HasPayments(o) ==
  Len(o.purchaseUnits) > 0 /\ o.purchaseUnits[1].payments

\* The first purchase unit has a payments sub-object that holds neither a
\* capture nor an authorization.
EmptyPayments(o) ==
  /\ HasPayments(o)
  /\ Len(o.purchaseUnits[1].captures) = 0
  /\ Len(o.purchaseUnits[1].authorizations) = 0

\* C14 (as stated): cancelPayment fails with the generic cancel error and
\* without a remote call when the embedded order has no purchase unit or its
\* first purchase unit no payments sub-object, whatever the status; and it
\* fails with the same error when the first purchase unit's payments
\* sub-object has neither a capture nor an authorization.
C14_AlwaysCancelError ==
  \A p \in Procs :
    (proc[p].op = "cancelPayment" /\ proc[p].pc = "done")
      => /\ ~HasPayments(Embedded(p))
              => /\ proc[p].result.error = ErrCancel
                 /\ proc[p].calls = <<>>
         /\ EmptyPayments(Embedded(p))
              => proc[p].result.error = ErrCancel

\* C14 (amended): the first half as stated; with a payments sub-object that
\* has neither a capture nor an authorization, cancelPayment fails with the
\* generic cancel error, without a remote call, unless the embedded order is
\* voided or completed with an invoice identifier: then the shortcut fetches
\* the order, and cancelPayment succeeds if the fetch does.
C14_CancelErrorOutsideShortcut ==
  \A p \in Procs :
    (proc[p].op = "cancelPayment" /\ proc[p].pc = "done")
      => /\ ~HasPayments(Embedded(p))
              => /\ proc[p].result.error = ErrCancel
                 /\ proc[p].calls = <<>>
         /\ (EmptyPayments(Embedded(p)) /\ ~Terminal(Embedded(p)))
              => /\ proc[p].result.error = ErrCancel
                 /\ proc[p].calls = <<>>
         /\ (EmptyPayments(Embedded(p)) /\ Terminal(Embedded(p)))
              => /\ Len(proc[p].calls) = 1
                 /\ proc[p].calls[1].api = "getOrder"
                 /\ FetchedOrder(p) => proc[p].result.kind = "ok"
                 /\ proc[p].result.kind = "error"
                      => proc[p].result.error # ErrCancel

\* A cancelPayment that ended in the cancel error without a call: the order
\* it was given is voided and its first purchase unit has no payments.
C14_Witness ==
  \E p \in Procs :
    /\ proc[p].op = "cancelPayment"
    /\ proc[p].pc = "done"
    /\ Embedded(p).status = "VOIDED"
    /\ Len(Embedded(p).purchaseUnits) > 0
    /\ ~HasPayments(Embedded(p))
    /\ proc[p].result.error = ErrCancel
    /\ proc[p].calls = <<>>

\* A cancelPayment that ended in the cancel error without a call: the first
\* purchase unit's payments are empty and the order is not yet terminal.
C14_EmptyPaymentsFail ==
  \E p \in Procs :
    /\ proc[p].op = "cancelPayment"
    /\ proc[p].pc = "done"
    /\ EmptyPayments(Embedded(p))
    /\ ~Terminal(Embedded(p))
    /\ proc[p].result.error = ErrCancel

\* C15: the status authorizePayment returns is the status table's value for
\* the status of the order embedded in the payload it returns, also when the
\* remote order changes between its two fetches.
C15_StatusOfReturnedOrder ==
  \A p \in Procs :
    (proc[p].op = "authorizePayment" /\ proc[p].pc = "done"
       /\ proc[p].result.kind = "ok")
      => proc[p].result.status
           = MapStatus(proc[p].result.data[1].paypalOrder.status)

\* The remote service holds authorization `id` in state `status`.
AuthorizationIs(orders, id, status) ==
  \E i \in DOMAIN orders : \E j \in DOMAIN orders[i].purchaseUnits :
    HasLive(orders[i].purchaseUnits[j].authorizations, id, status)

\* In this step invocation `p` sends a call to endpoint `api`.
IssuedNow(p, api) ==
  /\ Len(proc'[p].calls) = Len(proc[p].calls) + 1
  /\ proc'[p].calls[Len(proc'[p].calls)].api = api

\* The target of the call invocation `p` sends in this step.
TargetNow(p) == proc'[p].calls[Len(proc'[p].calls)].target

\* C16: with several operations in flight from the same session payload, no
\* void is sent for an authorization the remote service has already
\* captured, and no capture for an authorization it has already voided.
C16_ConsistentMutations ==
  [][\A p \in Procs :
       /\ IssuedNow(p, "voidPayment")
            => ~AuthorizationIs(remoteOrders, TargetNow(p), "CAPTURED")
       /\ IssuedNow(p, "captureAuthorizedPayment")
            => ~AuthorizationIs(remoteOrders, TargetNow(p), "VOIDED")]_vars

Refreshing ==
  {"retrievePayment", "authorizePayment", "capturePayment", "cancelPayment",
   "refundPayment", "updatePayment"}

\* C17: the payload retrievePayment, authorizePayment, capturePayment,
\* cancelPayment, refundPayment or updatePayment returns has every key of the
\* payload it was given (paypalOrder and paypalOrderId aside), and no earlier
\* payload nested inside it that the given payload did not have.
C17_PayloadShapeKept ==
  \A p \in Procs :
    (proc[p].op \in Refreshing /\ proc[p].pc = "done"
       /\ proc[p].result.kind = "ok")
      => /\ proc[p].input.data[1].keys \subseteq proc[p].result.data[1].keys
         /\ proc[p].result.data[1].nest = proc[p].input.data[1].nest

\* C18: a payload returned by a successful initiatePayment, retrievePayment,
\* authorizePayment, capturePayment, cancelPayment, refundPayment or
\* updatePayment carries as paypalOrderId the identifier of the order it
\* embeds, and that identifier is not empty; an invocation one of whose order
\* responses came without an identifier ends in an error.
C18_OrderIdOfEmbeddedOrder ==
  \A p \in Procs :
    (proc[p].op \in Refreshing \cup {"initiatePayment"} /\ proc[p].pc = "done")
      => /\ proc[p].result.kind = "ok"
              => /\ proc[p].result.data # <<>>
                 /\ proc[p].result.data[1].paypalOrderId
                      = proc[p].result.data[1].paypalOrder.id
                 /\ proc[p].result.data[1].paypalOrderId # ""
         /\ (\E i \in DOMAIN proc[p].calls : proc[p].calls[i].outcome = "noId")
              => proc[p].result.kind = "error"

\* An updatePayment whose patch succeeded and whose re-fetch answered with
\* an order without identifier: it ended in the update error.
C18_Witness ==
  \E p \in Procs :
    /\ proc[p].op = "updatePayment"
    /\ proc[p].pc = "done"
    /\ Len(proc[p].calls) = 2
    /\ proc[p].calls[1].outcome = "ok"
    /\ proc[p].calls[2].outcome = "noId"
    /\ proc[p].result.error = ErrUpdate

\* A successful initiatePayment on a provider without an order so far: its
\* payload carries the new order and that order's identifier.
C18_InitiatedOrder ==
  \E p \in Procs :
    /\ proc[p].op = "initiatePayment"
    /\ proc[p].pc = "done"
    /\ proc[p].result.kind = "ok"
    /\ proc[p].result.data[1].paypalOrderId = "O1"
    /\ proc[p].result.data[1].paypalOrder.id = "O1"

====
